---- MODULE Spec2Model ----
(***************************************************************************)
(* A model of the local semantic search engine: the path classifier        *)
(* (path_classifier.py), the background crawler/merge and the query path   *)
(* of SearchEngine (search_engine.py), with its three kinds of thread      *)
(* (initialisation, background update, caller's search) interleaved at the *)
(* granularity of reads and writes of the shared fields.                   *)
(***************************************************************************)
EXTENDS Integers, Sequences, FiniteSets, TLC

(***************************************************************************)
(* Bounds of the model.                                                    *)
(***************************************************************************)
\* longest cached path list a run may start from
MaxCacheLen == 2
\* number of times the process is started on the same data directory
MaxRuns == 2

(***************************************************************************)
(* settings.py                                                             *)
(***************************************************************************)
\* SEARCH_ROOT = r"C:\Users\Mitt", as its '\'-separated components
SEARCH_ROOT == <<"C:", "Users", "Mitt">>

\* EXCLUDED_PATHS, each as its components
EXCLUDED_PATHS ==
    { SEARCH_ROOT \o <<"AppData">>,
      SEARCH_ROOT \o <<"ScStore">>,
      SEARCH_ROOT \o <<"Searches">> }

\* RELEVANCE_THRESHOLD = 0.5, in hundredths
RELEVANCE_THRESHOLD == 50

SEARCH_TOP_K == 5

EXCLUDED_EXTENSIONS ==
    { ".pyc", ".pyo", ".pyd", ".so", ".dll", ".o", ".obj", ".exe", ".bin",
      ".class", ".jar", ".war", ".res", ".voucher", ".dat", ".lnk", ".azw",
      ".mbpV2", ".phl" }

POSITIVE_EXTENSIONS ==
    { ".pdf", ".doc", ".docx", ".xls", ".xlsx", ".ppt", ".pptx",
      ".txt", ".md", ".rst", ".csv", ".json", ".xml", ".yaml", ".yml",
      ".py", ".js", ".ts", ".html", ".css", ".java", ".cpp", ".c", ".h",
      ".go", ".rs", ".rb", ".php", ".sql", ".sh", ".bat", ".ps1",
      ".jpg", ".jpeg", ".png", ".gif", ".svg", ".mp4", ".mp3",
      ".zip", ".rar", ".7z", ".tar", ".gz" }

POSITIVE_NAMES ==
    { "readme", "license", "changelog", "config", "settings",
      "todo", "notes", "docs", "documentation", "guide",
      "main", "index", "app", "application", "project" }

POSITIVE_FOLDERS ==
    { "documents", "desktop", "downloads", "projects", "work",
      "pictures", "photos", "images", "videos", "music",
      "src", "source", "lib", "scripts", "tools" }

(***************************************************************************)
(* Path components.  A path is the sequence of its components; what the    *)
(* string operations of the code (lower, startswith, splitext, substring   *)
(* and regular-expression tests) give on a component is tabulated here.    *)
(*   lower   c.lower()                                                     *)
(*   dot     c.startswith('.')                                             *)
(*   stem    os.path.splitext(c.lower())[0]                                *)
(*   ext     os.path.splitext(c.lower())[1]                                *)
(*   len     len(stem)                                                     *)
(*   pat     some EXCLUDED_PATTERNS entry, lower-cased, is a substring of  *)
(*           c.lower()                                                     *)
(*   neg     some NEGATIVE_PATTERNS regex matches stem                     *)
(*   pre     the last components e of EXCLUDED_PATHS with                  *)
(*           c.lower().startswith(e.lower())                               *)
(***************************************************************************)
CompRec(lo, d, st, ex, ln, pt, ng, pr) ==
    [lower |-> lo, dot |-> d, stem |-> st, ext |-> ex, len |-> ln,
     pat |-> pt, neg |-> ng, pre |-> pr]

Components ==
    { "C:", "Users", "Mitt", "Documents", "notes.txt", "1234",
      "readme.md", "AppData", "ScStore", "Searches", "build", ".git",
      ".ssh", ".profile", "1234.txt", "a", "lib.dll" }

Comp ==
    [c \in Components |->
        CASE c = "C:" ->
               CompRec("c:", FALSE, "c:", "", 2, FALSE, FALSE, {})
          [] c = "Users" ->
               CompRec("users", FALSE, "users", "", 5, FALSE, FALSE, {})
          [] c = "Mitt" ->
               CompRec("mitt", FALSE, "mitt", "", 4, FALSE, FALSE, {})
          [] c = "Documents" ->
               CompRec("documents", FALSE, "documents", "", 9, FALSE, FALSE, {})
          [] c = "notes.txt" ->
               CompRec("notes.txt", FALSE, "notes", ".txt", 5, FALSE, FALSE, {})
          [] c = "1234" ->
               CompRec("1234", FALSE, "1234", "", 4, FALSE, TRUE, {})
          [] c = "readme.md" ->
               CompRec("readme.md", FALSE, "readme", ".md", 6, FALSE, FALSE, {})
          [] c = "AppData" ->
               CompRec("appdata", FALSE, "appdata", "", 7, FALSE, FALSE, {"AppData"})
          [] c = "ScStore" ->
               CompRec("scstore", FALSE, "scstore", "", 7, FALSE, FALSE, {"ScStore"})
          [] c = "Searches" ->
               CompRec("searches", FALSE, "searches", "", 8, FALSE, FALSE, {"Searches"})
          [] c = "build" ->
               CompRec("build", FALSE, "build", "", 5, TRUE, FALSE, {})
          [] c = ".git" ->
               CompRec(".git", TRUE, ".git", "", 4, TRUE, FALSE, {})
          [] c = ".ssh" ->
               CompRec(".ssh", TRUE, ".ssh", "", 4, FALSE, FALSE, {})
          [] c = ".profile" ->
               CompRec(".profile", TRUE, ".profile", "", 8, FALSE, FALSE, {})
          [] c = "1234.txt" ->
               CompRec("1234.txt", FALSE, "1234", ".txt", 4, FALSE, TRUE, {})
          [] c = "a" ->
               CompRec("a", FALSE, "a", "", 1, FALSE, FALSE, {})
          [] c = "lib.dll" ->
               CompRec("lib.dll", FALSE, "lib", ".dll", 3, FALSE, FALSE, {})]

Last(s) == s[Len(s)]

Front(s) == SubSeq(s, 1, Len(s) - 1)

\* str.lower() of a path: component-wise
LowerPath(p) == [i \in 1..Len(p) |-> Comp[p[i]].lower]

\* path.lower().startswith(excluded.lower()): a prefix test on the strings, so
\* the last component of excluded need only be a prefix of the component at
\* its place
StartsWith(p, excluded) ==
    LET n == Len(excluded) IN
    /\ Len(p) >= n
    /\ \A i \in 1..(n - 1) : Comp[p[i]].lower = Comp[excluded[i]].lower
    /\ \/ Comp[p[n]].lower = Comp[excluded[n]].lower
       \/ excluded[n] \in Comp[p[n]].pre

(***************************************************************************)
(* The doubles of the score arithmetic.  A double x is written <<c, k>>:   *)
(* x = fl(c/100) + k * 2^-56, where fl(c/100) is the double nearest c/100. *)
(* FloatDev lists <<c, k, d, k2>>: the IEEE-754 sum of <<c, k>> and the    *)
(* double nearest d/100 is <<c + d, k2>>, for the sums where k2 is not 0.  *)
(***************************************************************************)
FloatDev ==
    {
      <<-10, 2, -10, 2>>, <<0, -4, -10, -4>>, <<5, -1, -10, -1>>, <<5, 3, -10, 3>>,
      <<10, -6, -10, -6>>, <<10, -2, -10, -2>>, <<10, 0, -30, 2>>, <<10, 2, -10, 2>>,
      <<15, 2, -10, 1>>, <<15, 6, -10, 5>>, <<20, -4, -10, -4>>, <<20, -2, -10, -2>>,
      <<20, 0, -30, 2>>, <<25, -4, -10, -4>>, <<25, 0, -30, 1>>, <<25, 4, -10, 4>>,
      <<30, -4, -30, -4>>, <<30, -4, -10, -6>>, <<30, 0, -10, -2>>, <<35, -4, -10, -6>>,
      <<35, 0, -30, -1>>, <<35, 0, -10, -2>>, <<35, 4, -30, 3>>, <<40, -8, -30, -6>>,
      <<40, -8, -10, -4>>, <<40, -4, -30, -2>>, <<40, -4, -10, -4>>, <<40, 0, -30, 2>>,
      <<40, 0, -10, 4>>, <<45, 0, -30, 2>>, <<45, 4, -30, 6>>, <<45, 4, -10, 8>>,
      <<50, -4, -30, -4>>, <<50, -4, -10, -8>>, <<55, -8, -30, -4>>, <<55, -8, -10, -4>>,
      <<55, 0, -30, 4>>, <<55, 0, -10, 4>>, <<65, -8, -30, -4>>, <<65, -8, -10, -8>>,
      <<65, 0, -30, 4>>, <<70, 0, -30, -4>>, <<70, 0, 10, -8>>, <<80, -8, -30, -4>>,
      <<95, 0, -30, -8>>
    }

\* the k2 of the sum of <<c, k>> and d
FloatDevOf(c, k, d) ==
    LET found == {t \in FloatDev : t[1] = c /\ t[2] = k /\ t[3] = d} IN
    IF found = {} THEN 0 ELSE (CHOOSE t \in found : TRUE)[4]

\* the double x + d/100
FloatAdd(x, d) ==
    CHOOSE r \in {<<v[1] + d, FloatDevOf(v[1], v[2], d)>> : v \in {x}} : TRUE

\* x >= y on doubles
FloatGeq(x, y) == x[1] > y[1] \/ (x[1] = y[1] /\ x[2] >= y[2])

\* max(0.0, min(1.0, score))
Clamp(x) ==
    IF ~FloatGeq(<<100, 0>>, x) THEN <<100, 0>>
    ELSE IF ~FloatGeq(x, <<0, 0>>) THEN <<0, 0>>
    ELSE x

(***************************************************************************)
(* path_classifier.py                                                      *)
(***************************************************************************)
\* e.lower() for an entry of EXCLUDED_EXTENSIONS
LowerExt(e) == IF e = ".mbpV2" THEN ".mbpv2" ELSE e

\* a matches_excluded_pattern without the test of EXCLUDED_PATHS
MatchesPatternsOnly(path) ==
    \/ Comp[Last(path)].dot
    \/ \E i \in 1..Len(path) : Comp[path[i]].pat
    \/ Comp[Last(path)].ext \in {LowerExt(e) : e \in EXCLUDED_EXTENSIONS}

\* PathClassifierBase.matches_excluded_pattern
matches_excluded_pattern(path) ==
    \/ \E excluded \in EXCLUDED_PATHS : StartsWith(path, excluded)
    \/ Comp[Last(path)].dot
    \/ \E i \in 1..Len(path) : Comp[path[i]].pat
    \/ Comp[Last(path)].ext \in {LowerExt(e) : e \in EXCLUDED_EXTENSIONS}

\* HeuristicClassifier._calculate_score: the adjustments in hundredths, in the
\* order the code applies them, 0 where the test of one fails
Adjustments(path) ==
    LET filename == Last(path)
        ext == Comp[filename].ext
        name_without_ext == Comp[filename].stem
    IN  << IF ext \in POSITIVE_EXTENSIONS THEN 20 ELSE 0,
           IF name_without_ext \in POSITIVE_NAMES THEN 15 ELSE 0,
           IF \E i \in 1..Len(path) : Comp[path[i]].lower \in POSITIVE_FOLDERS
              THEN 10 ELSE 0,
           IF Comp[filename].dot THEN -30 ELSE 0,
           IF Len(path) > 8 THEN -10 ELSE 0,
           IF Comp[filename].neg THEN -30 ELSE 0,
           IF Comp[filename].len < 2 \/ Comp[filename].len > 100 THEN -10 ELSE 0 >>

\* score += d, or score -= -d, for each adjustment d that applies
RECURSIVE FloatSum(_, _)
FloatSum(score, ds) ==
    IF ds = <<>> THEN score
    ELSE IF Head(ds) = 0 THEN FloatSum(score, Tail(ds))
    ELSE FloatSum(FloatAdd(score, Head(ds)), Tail(ds))

\* HeuristicClassifier._calculate_score
_calculate_score(path) == Clamp(FloatSum(<<50, 0>>, Adjustments(path)))

\* HeuristicClassifier.is_relevant of a classifier made with the threshold
\* (in hundredths)
IsRelevantAt(path, threshold) ==
    IF matches_excluded_pattern(path) THEN FALSE
    ELSE FloatGeq(_calculate_score(path), <<threshold, 0>>)

\* is_relevant of get_classifier(), whose threshold is the default
is_relevant(path) == IsRelevantAt(path, RELEVANCE_THRESHOLD)

(***************************************************************************)
(* The file system under SEARCH_ROOT: the paths that may exist, which of   *)
(* them are directories, and the order in which a directory lists its      *)
(* entries.                                                                *)
(***************************************************************************)
pDocuments == SEARCH_ROOT \o <<"Documents">>
pDocNotes  == SEARCH_ROOT \o <<"Documents", "notes.txt">>
pNotes     == SEARCH_ROOT \o <<"notes.txt">>
pDigits    == SEARCH_ROOT \o <<"1234">>
pReadme    == SEARCH_ROOT \o <<"1234", "readme.md">>
\* paths only the trees of a scan called on its own have: a hidden directory,
\* an absolute-exclusion root, what lies in them, a hidden file and a file
\* the classifier rejects
pSsh          == SEARCH_ROOT \o <<".ssh">>
pSshNotes     == SEARCH_ROOT \o <<".ssh", "notes.txt">>
pAppData      == SEARCH_ROOT \o <<"AppData">>
pAppDataNotes == SEARCH_ROOT \o <<"AppData", "notes.txt">>
pDocDigits    == SEARCH_ROOT \o <<"Documents", "1234.txt">>
pProfile      == SEARCH_ROOT \o <<".profile">>

Listing ==
    <<pDocuments, pDigits, pSsh, pAppData, pDocNotes, pDocDigits, pNotes,
      pProfile, pReadme, pSshNotes, pAppDataNotes>>

\* the paths the file system of a running engine is made of
Universe == {pDocuments, pDigits, pDocNotes, pNotes, pReadme}

Dirs == {pDocuments, pDigits, pSsh, pAppData}

\* a tree: every path but the root's own children has its parent in it
FileSystems ==
    { S \in SUBSET Universe :
        \A p \in S : Front(p) = SEARCH_ROOT \/ (Front(p) \in S /\ Front(p) \in Dirs) }

\* the trees a scan called on its own walks
CrawlTrees ==
    { S \in SUBSET {Listing[i] : i \in 1..Len(Listing)} :
        \A p \in S : Front(p) = SEARCH_ROOT \/ (Front(p) \in S /\ Front(p) \in Dirs) }

\* the entries of directory root in tree S, in listing order
Entries(root, S, wantDirs) ==
    LET Here(p) == p \in S /\ Front(p) = root /\ ((p \in Dirs) = wantDirs)
    IN  SelectSeq(Listing, Here)

RECURSIVE Concat(_)
Concat(ss) == IF ss = <<>> THEN <<>> ELSE Head(ss) \o Concat(Tail(ss))

(***************************************************************************)
(* search_engine.py: the scan of _update_index_background (os.walk,        *)
(* top-down).  Walk(root, S) is what the loop appends to current_paths     *)
(* from directory root on; the name appended with a path is its last       *)
(* component.                                                              *)
(***************************************************************************)
\* valid_dirs without lines 102-114: every directory of root kept
AllDirs(root, S) == Entries(root, S, TRUE)

\* the directories of root the walk keeps (valid_dirs)
ValidDirs(root, S) ==
    LET Keep(full_path) ==
            /\ ~Comp[Last(full_path)].dot
            /\ ~\E excluded \in EXCLUDED_PATHS :
                    LowerPath(full_path) = LowerPath(excluded)
            /\ is_relevant(full_path)
    IN  SelectSeq(Entries(root, S, TRUE), Keep)

\* the files of root the walk appends
ValidFiles(root, S) ==
    LET Keep(full_path) == ~Comp[Last(full_path)].dot /\ is_relevant(full_path)
    IN  SelectSeq(Entries(root, S, FALSE), Keep)

\* a walk without line 119 (dirs[:] = valid_dirs): os.walk goes down every
\* directory, kept or not
RECURSIVE WalkUnpruned(_, _)
WalkUnpruned(root, S) ==
    IF \E excluded \in EXCLUDED_PATHS : StartsWith(root, excluded)
    THEN <<>>
    ELSE LET dirs == Entries(root, S, TRUE)
         IN  ValidDirs(root, S) \o ValidFiles(root, S)
                \o Concat([i \in 1..Len(dirs) |-> WalkUnpruned(dirs[i], S)])

RECURSIVE Walk(_, _)
Walk(root, S) ==
    IF \E excluded \in EXCLUDED_PATHS : StartsWith(root, excluded)
    THEN <<>>
    ELSE LET valid_dirs == ValidDirs(root, S)
         IN  valid_dirs \o ValidFiles(root, S)
                \o Concat([i \in 1..Len(valid_dirs) |-> Walk(valid_dirs[i], S)])

Scan(S) == Walk(SEARCH_ROOT, S)

\* the directories os.walk yields as root, in order: the top and, top-down,
\* what each step leaves in dirs
RECURSIVE Visited(_, _)
Visited(root, S) ==
    LET dirs == IF \E excluded \in EXCLUDED_PATHS : StartsWith(root, excluded)
                THEN <<>>
                ELSE ValidDirs(root, S)
    IN  <<root>> \o Concat([i \in 1..Len(dirs) |-> Visited(dirs[i], S)])

NamesOf(paths) == [i \in 1..Len(paths) |-> Last(paths[i])]

(***************************************************************************)
(* The embedding runtime, a deterministic black box: the vector of a text. *)
(***************************************************************************)
Texts == {"Documents", "notes.txt", "1234", "readme.md", "notes"}

Encode ==
    [t \in Texts |->
        CASE t = "Documents" -> <<3, 4>>
          [] t = "notes.txt" -> <<4, 3>>
          [] t = "1234" -> <<0, 5>>
          [] t = "readme.md" -> <<6, 8>>
          [] t = "notes" -> <<4, 3>>]

\* model.encode(names)
encode(names) == [i \in 1..Len(names) |-> Encode[names[i]]]

Queries == {"notes"}

ISqrt(n) == CHOOSE r \in 0..n : r * r <= n /\ (r + 1) * (r + 1) > n

\* np.linalg.norm of one row
Norm(v) == ISqrt(v[1] * v[1] + v[2] * v[2])

Dot(v, w) == v[1] * w[1] + v[2] * w[2]

(***************************************************************************)
(* State.                                                                  *)
(*   fs, cache, log        the files under SEARCH_ROOT, the cache file     *)
(*                         (search_cache.pkl) and the embeddings log       *)
(*   file_paths .. status  the fields of SearchEngine                      *)
(*   init_pc, init_prev    the initialisation thread: its position and its *)
(*                         prev_status inside _save_cache                  *)
(*   upd_pc, upd           the background update thread: its position and  *)
(*                         its locals                                      *)
(*   log_pc                the logging thread                              *)
(*   s                     the caller's thread inside search: its position,*)
(*                         locals and return value                         *)
(*   run .. prev           history: the number of the process run, the     *)
(*                         snapshot the update thread started from, the    *)
(*                         batches passed to model.encode by the update    *)
(*                         thread, whether the merge ran, whether an       *)
(*                         exception was raised in model load, scan,       *)
(*                         embedding or save, and what the previous run of *)
(*                         the process left                                *)
(*   call                  a call of the classifier or of search made on   *)
(*                         its own, outside a run of the engine: its       *)
(*                         arguments and what it returned                  *)
(***************************************************************************)
VARIABLES
    call,
    fs, cache, log,
    file_paths, file_names, embeddings, model, is_ready, status,
    init_pc, init_prev, upd_pc, upd, log_pc, s,
    run, base, encoded, merged, failed, prev

vars == <<call, fs, cache, log, file_paths, file_names, embeddings, model, is_ready,
          status, init_pc, init_prev, upd_pc, upd, log_pc, s,
          run, base, encoded, merged, failed, prev>>

engine == <<file_paths, file_names, embeddings, model, is_ready, status>>

history == <<run, base, encoded, merged, failed, prev>>

\* self.embeddings is None, or a matrix given by its rows
NoneEmb == [isNone |-> TRUE, rows |-> <<>>]

Matrix(rows) == [isNone |-> FALSE, rows |-> rows]

\* a status string, and one formatted with a count
St(text) == [text |-> text, n |-> 0]

StN(text, n) == [text |-> text, n |-> n]

Snapshot == [paths |-> file_paths, names |-> file_names, embeddings |-> embeddings]

\* the cache file: absent, unreadable by pickle.load, or a pickled dict
AbsentCache ==
    [kind |-> "absent", names |-> <<>>, paths |-> <<>>, embeddings |-> NoneEmb]

GarbageCache ==
    [kind |-> "garbage", names |-> <<>>, paths |-> <<>>, embeddings |-> NoneEmb]

Pickled(names, paths, emb) ==
    [kind |-> "ok", names |-> names, paths |-> paths, embeddings |-> emb]

\* the sequences of distinct elements of S, of length at most n
DistinctSeqs(S, n) ==
    { sq \in UNION {[1..k -> S] : k \in 0..n} :
        \A i, j \in 1..Len(sq) : i # j => sq[i] # sq[j] }

\* what an earlier run of the program, under any earlier configuration, can
\* have left in the cache file
InitialCaches ==
    {AbsentCache, GarbageCache} \cup
    { Pickled(NamesOf(ps), ps, Matrix(encode(NamesOf(ps)))) :
        ps \in DistinctSeqs(Universe, MaxCacheLen) }

\* a pickled dict that lacks one of the keys 'names', 'paths', 'embeddings'
\* (a file another program or version wrote)
LacksKey(key, names, paths, emb) ==
    [kind |-> key, names |-> names, paths |-> paths, embeddings |-> emb]

ForeignCaches ==
    { LacksKey(key, NamesOf(ps), ps, Matrix(encode(NamesOf(ps)))) :
        key \in {"no_names", "no_paths", "no_embeddings"},
        ps \in DistinctSeqs(Universe, MaxCacheLen) }

NoLocals ==
    [current_paths |-> <<>>, current_names |-> <<>>, new_paths |-> <<>>,
     new_names |-> <<>>, new_embeddings |-> <<>>, first_run |-> FALSE,
     prev_status |-> St("")]

NoReturn == [kind |-> "none", items |-> <<>>]

Idle ==
    [pc |-> "idle", during |-> "", query |-> "", top_k |-> 0, norm_db |-> <<>>,
     similarities |-> <<>>, top_indices |-> <<>>, i |-> 0, name |-> "",
     results |-> <<>>, ret |-> NoReturn]

NoPrev ==
    [valid |-> FALSE, snapshot |-> [paths |-> <<>>, names |-> <<>>, embeddings |-> NoneEmb],
     cache |-> AbsentCache]

\* no call has been made
NoCall ==
    [pc |-> "idle", path |-> <<>>, threshold |-> 0, excluded |-> FALSE,
     score |-> <<0, 0>>, relevant |-> FALSE,
     snapshot |-> [paths |-> <<>>, names |-> <<>>, embeddings |-> NoneEmb],
     query |-> "", top_k |-> 0, ret |-> NoReturn,
     tree |-> {}, visited |-> <<>>, current_paths |-> <<>>, current_names |-> <<>>]

\* SearchEngine.__init__
Constructed ==
    /\ file_paths = <<>>
    /\ file_names = <<>>
    /\ embeddings = NoneEmb
    /\ model = FALSE
    /\ is_ready = FALSE
    /\ status = St("Initializing...")
    /\ init_pc = "begin"
    /\ init_prev = St("")
    /\ upd_pc = "idle"
    /\ upd = NoLocals
    /\ log_pc = "idle"
    /\ s = Idle

Init ==
    /\ call = NoCall
    /\ fs \in FileSystems
    /\ cache \in InitialCaches
    /\ log = <<>>
    /\ Constructed
    /\ run = 1
    /\ base = [paths |-> <<>>, names |-> <<>>, embeddings |-> NoneEmb]
    /\ encoded = <<>>
    /\ merged = FALSE
    /\ failed = FALSE
    /\ prev = NoPrev

(***************************************************************************)
(* _save_cache, as the three steps a reader of status can tell apart.      *)
(***************************************************************************)
\* lines 208-209
SaveBegin == status' = St("Saving Cache...")

\* a save of the snapshot the background run started from
SaveWrittenStale == Pickled(base.names, base.paths, base.embeddings)

\* lines 211-218: the dict is pickled into the file
SaveWritten == Pickled(file_names, file_paths, embeddings)

\* lines 219-220: open() failed and left the file, or dump() failed part-way
SaveFailed == {cache, GarbageCache}

\* a finally block that always reports Ready
SaveFinallyReady(prev_status) == status' = St("Ready")

\* lines 221-226
SaveFinally(prev_status) ==
    status' = IF is_ready THEN St("Ready") ELSE prev_status

(***************************************************************************)
(* _initialize_backend                                                     *)
(***************************************************************************)
\* lines 51-52
InitBegin ==
    /\ init_pc = "begin"
    /\ status' = St("Downloading Model...")
    /\ init_pc' = "load_model"
    /\ UNCHANGED <<call, fs, cache, log, file_paths, file_names, embeddings, model,
                   is_ready, init_prev, upd_pc, upd, log_pc, s, history>>

\* lines 54-55
InitLoadModel ==
    /\ init_pc = "load_model"
    /\ model' = TRUE
    /\ init_pc' = "load_cache"
    /\ UNCHANGED <<call, fs, cache, log, file_paths, file_names, embeddings,
                   is_ready, status, init_prev, upd_pc, upd, log_pc, s, history>>

\* a handler of the model-load exception that reports it and carries on
InitLoadModelErrorIgnored ==
    /\ init_pc = "load_model"
    /\ status' = St("Error: model load failed")
    /\ init_pc' = "load_cache"
    /\ failed' = TRUE
    /\ UNCHANGED <<call, fs, cache, log, file_paths, file_names, embeddings, model,
                   is_ready, init_prev, upd_pc, upd, log_pc, s,
                   run, base, encoded, merged, prev>>

\* lines 54-55 raising, lines 69-71
InitLoadModelError ==
    /\ init_pc = "load_model"
    /\ status' = St("Error: model load failed")
    /\ init_pc' = "failed"
    /\ failed' = TRUE
    /\ UNCHANGED <<call, fs, cache, log, file_paths, file_names, embeddings, model,
                   is_ready, init_prev, upd_pc, upd, log_pc, s,
                   run, base, encoded, merged, prev>>

\* a _load_cache that finds nothing to load
LoadCacheMisses ==
    /\ init_pc = "load_cache"
    /\ init_pc' = "start_update"
    /\ UNCHANGED <<call, fs, cache, log, engine, init_prev, upd_pc, upd, log_pc, s, history>>

\* line 58, _load_cache (lines 228-243)
InitLoadCache ==
    /\ init_pc = "load_cache"
    /\ CASE cache.kind = "absent" ->
              /\ init_pc' = "start_update"
              /\ UNCHANGED <<file_paths, file_names, embeddings, status>>
         [] cache.kind = "garbage" ->
              /\ status' = St("Loading from Cache...")
              /\ init_pc' = "start_update"
              /\ UNCHANGED <<file_paths, file_names, embeddings>>
         [] cache.kind = "ok" ->
              /\ status' = St("Loading from Cache...")
              /\ file_names' = cache.names
              /\ file_paths' = cache.paths
              /\ embeddings' = cache.embeddings
              /\ init_pc' = "filter"
         [] cache.kind = "no_names" ->
              \* line 239 raises KeyError
              /\ status' = St("Loading from Cache...")
              /\ init_pc' = "start_update"
              /\ UNCHANGED <<file_paths, file_names, embeddings>>
         [] cache.kind = "no_paths" ->
              \* line 239 has assigned, line 240 raises KeyError
              /\ status' = St("Loading from Cache...")
              /\ file_names' = cache.names
              /\ init_pc' = "start_update"
              /\ UNCHANGED <<file_paths, embeddings>>
         [] cache.kind = "no_embeddings" ->
              \* lines 239-240 have assigned, line 241 raises KeyError
              /\ status' = St("Loading from Cache...")
              /\ file_names' = cache.names
              /\ file_paths' = cache.paths
              /\ init_pc' = "start_update"
              /\ UNCHANGED embeddings
    /\ UNCHANGED <<call, fs, cache, log, model, is_ready, init_prev, upd_pc, upd,
                   log_pc, s, history>>

\* the positions of flags that hold TRUE, ascending
Indices(flags) ==
    LET At(i) == flags[i]
    IN  SelectSeq([i \in 1..Len(flags) |-> i], At)

\* [seq[i] for i in indices]
Pick(seq, indices) == [k \in 1..Len(indices) |-> seq[indices[k]]]

\* a filter that keeps every position
AllPositions == [i \in 1..Len(file_paths) |-> i]

\* _filter_cache, lines 192-195
indices_to_keep ==
    Indices([i \in 1..Len(file_paths) |-> is_relevant(file_paths[i])])

\* line 60, _filter_cache (lines 189-202) up to its call of _save_cache
InitFilter ==
    /\ init_pc = "filter"
    /\ IF file_paths = <<>>
       THEN /\ init_pc' = "ready"
            /\ UNCHANGED <<file_paths, file_names, embeddings>>
       ELSE IF Len(indices_to_keep) < Len(file_paths)
       THEN /\ file_paths' = Pick(file_paths, indices_to_keep)
            /\ file_names' = Pick(file_names, indices_to_keep)
            /\ embeddings' = IF embeddings.isNone THEN embeddings
                             ELSE Matrix(Pick(embeddings.rows, indices_to_keep))
            /\ init_pc' = "save_begin"
       ELSE /\ init_pc' = "ready"
            /\ UNCHANGED <<file_paths, file_names, embeddings>>
    /\ UNCHANGED <<call, fs, cache, log, model, is_ready, status, init_prev, upd_pc,
                   upd, log_pc, s, history>>

\* line 204, _save_cache lines 208-209
InitSaveBegin ==
    /\ init_pc = "save_begin"
    /\ init_prev' = status
    /\ SaveBegin
    /\ init_pc' = "save_write"
    /\ UNCHANGED <<call, fs, cache, log, file_paths, file_names, embeddings, model,
                   is_ready, upd_pc, upd, log_pc, s, history>>

InitSaveWrite ==
    /\ init_pc = "save_write"
    /\ cache' = SaveWritten
    /\ init_pc' = "save_finally"
    /\ UNCHANGED <<call, fs, log, engine, init_prev, upd_pc, upd, log_pc, s, history>>

InitSaveWriteError ==
    /\ init_pc = "save_write"
    /\ cache' \in SaveFailed
    /\ failed' = TRUE
    /\ init_pc' = "save_finally"
    /\ UNCHANGED <<call, fs, log, engine, init_prev, upd_pc, upd, log_pc, s,
                   run, base, encoded, merged, prev>>

InitSaveFinally ==
    /\ init_pc = "save_finally"
    /\ SaveFinally(init_prev)
    /\ init_pc' = "ready"
    /\ UNCHANGED <<call, fs, cache, log, file_paths, file_names, embeddings, model,
                   is_ready, init_prev, upd_pc, upd, log_pc, s, history>>

\* line 61
InitReady ==
    /\ init_pc = "ready"
    /\ is_ready' = TRUE
    /\ init_pc' = "status_ready"
    /\ UNCHANGED <<call, fs, cache, log, file_paths, file_names, embeddings, model,
                   status, init_prev, upd_pc, upd, log_pc, s, history>>

\* line 62
InitStatusReady ==
    /\ init_pc = "status_ready"
    /\ status' = St("Ready")
    /\ init_pc' = "start_update"
    /\ UNCHANGED <<call, fs, cache, log, file_paths, file_names, embeddings, model,
                   is_ready, init_prev, upd_pc, upd, log_pc, s, history>>

\* lines 65-67
InitStartUpdate ==
    /\ init_pc = "start_update"
    /\ upd_pc' = "begin"
    /\ init_pc' = "done"
    /\ UNCHANGED <<call, fs, cache, log, engine, init_prev, upd, log_pc, s, history>>

(***************************************************************************)
(* _update_index_background                                                *)
(***************************************************************************)
\* lines 76-80
UpdBegin ==
    /\ upd_pc = "begin"
    /\ status' = IF is_ready THEN St("Ready (Scanning for new files...)")
                 ELSE St("Indexing Files...")
    /\ base' = Snapshot
    /\ upd_pc' = "scan"
    /\ UNCHANGED <<call, fs, cache, log, file_paths, file_names, embeddings, model,
                   is_ready, init_pc, init_prev, upd, log_pc, s,
                   run, encoded, merged, failed, prev>>

\* lines 85-128
UpdScan ==
    /\ upd_pc = "scan"
    /\ upd' = [upd EXCEPT !.current_paths = Scan(fs),
                          !.current_names = NamesOf(Scan(fs))]
    /\ upd_pc' = "diff"
    /\ UNCHANGED <<call, fs, cache, log, engine, init_pc, init_prev, log_pc, s, history>>

\* lines 88-128 raising, lines 129-131
UpdScanError ==
    /\ upd_pc = "scan"
    /\ failed' = TRUE
    /\ upd_pc' = "scan_error"
    /\ UNCHANGED <<call, fs, cache, log, engine, init_pc, init_prev, upd, log_pc, s,
                   run, base, encoded, merged, prev>>

\* a diff that takes every scanned path as new
AllIndices(current_paths, existing_paths) == [i \in 1..Len(current_paths) |-> i]

\* lines 135-143: the positions of current_paths not in existing_paths_set
NewIndices(current_paths, existing_paths) ==
    LET existing_paths_set == {existing_paths[i] : i \in 1..Len(existing_paths)}
    IN  Indices([i \in 1..Len(current_paths) |->
                    current_paths[i] \notin existing_paths_set])

\* lines 135-145
UpdDiff ==
    /\ upd_pc = "diff"
    /\ LET new == NewIndices(upd.current_paths, file_paths) IN
       /\ upd' = [upd EXCEPT !.new_paths = Pick(upd.current_paths, new),
                             !.new_names = Pick(upd.current_names, new)]
       /\ upd_pc' = IF new = <<>> THEN "no_new" ELSE "embed_status"
    /\ UNCHANGED <<call, fs, cache, log, engine, init_pc, init_prev, log_pc, s, history>>

\* lines 147-149
UpdNoNewAdopt ==
    /\ upd_pc = "no_new"
    /\ IF ~is_ready
       THEN /\ file_paths' = upd.current_paths
            /\ file_names' = upd.current_names
            /\ upd_pc' = "no_new_ready"
       ELSE /\ UNCHANGED <<file_paths, file_names>>
            /\ upd_pc' = "no_new_status"
    /\ UNCHANGED <<call, fs, cache, log, embeddings, model, is_ready, status, init_pc,
                   init_prev, upd, log_pc, s, history>>

\* lines 147-150 without line 150: the lists adopted, the flag left as it is
UpdNoNewReadySkipped ==
    /\ upd_pc = "no_new_ready"
    /\ upd_pc' = "no_new_status"
    /\ UNCHANGED <<call, fs, cache, log, engine, init_pc, init_prev, upd, log_pc, s, history>>

\* line 150
UpdNoNewReady ==
    /\ upd_pc = "no_new_ready"
    /\ is_ready' = TRUE
    /\ upd_pc' = "no_new_status"
    /\ UNCHANGED <<call, fs, cache, log, file_paths, file_names, embeddings, model,
                   status, init_pc, init_prev, upd, log_pc, s, history>>

\* a return from the no-new-files branch that leaves the status as it is
UpdNoNewReturn ==
    /\ upd_pc = "no_new_status"
    /\ upd_pc' = "done"
    /\ UNCHANGED <<call, fs, cache, log, engine, init_pc, init_prev, upd, log_pc, s, history>>

\* lines 151-152
UpdNoNewStatus ==
    /\ upd_pc = "no_new_status"
    /\ status' = St("Ready")
    /\ upd_pc' = "done"
    /\ UNCHANGED <<call, fs, cache, log, file_paths, file_names, embeddings, model,
                   is_ready, init_pc, init_prev, upd, log_pc, s, history>>

\* lines 154-158
UpdEmbedStatus ==
    /\ upd_pc = "embed_status"
    /\ status' = IF is_ready
                 THEN StN("Ready (Embedding n new files...)", Len(upd.new_paths))
                 ELSE StN("Embedding n files...", Len(upd.new_paths))
    /\ upd_pc' = "encode"
    /\ UNCHANGED <<call, fs, cache, log, file_paths, file_names, embeddings, model,
                   is_ready, init_pc, init_prev, upd, log_pc, s, history>>

\* line 161
UpdEncode ==
    /\ upd_pc = "encode"
    /\ upd' = [upd EXCEPT !.new_embeddings = encode(upd.new_names)]
    /\ encoded' = Append(encoded, upd.new_names)
    /\ upd_pc' = "merge"
    /\ UNCHANGED <<call, fs, cache, log, engine, init_pc, init_prev, log_pc, s,
                   run, base, merged, failed, prev>>

\* line 161 raising: nothing catches it, the thread ends
UpdEncodeError ==
    /\ upd_pc = "encode"
    /\ failed' = TRUE
    /\ upd_pc' = "died"
    /\ UNCHANGED <<call, fs, cache, log, engine, init_pc, init_prev, upd, log_pc, s,
                   run, base, encoded, merged, prev>>

\* a merge that replaces the paths by the new ones
ReplacedPaths(first_run) == upd.new_paths

\* a merge that leaves the names as they are
NamesNotExtended(first_run) == IF first_run THEN upd.new_names ELSE file_names

\* lines 170 and 175
MergedPaths(first_run) ==
    IF first_run THEN upd.new_paths ELSE file_paths \o upd.new_paths

\* lines 171 and 176
MergedNames(first_run) ==
    IF first_run THEN upd.new_names ELSE file_names \o upd.new_names

\* lines 172 and 177
MergedEmbeddings(first_run) ==
    IF first_run THEN Matrix(upd.new_embeddings)
    ELSE Matrix(embeddings.rows \o upd.new_embeddings)

\* line 168 and line 170 or 175
UpdMergePaths ==
    /\ upd_pc = "merge"
    /\ upd' = [upd EXCEPT !.first_run = embeddings.isNone]
    /\ file_paths' = MergedPaths(embeddings.isNone)
    /\ merged' = TRUE
    /\ upd_pc' = "merge_names"
    /\ UNCHANGED <<call, fs, cache, log, file_names, embeddings, model, is_ready,
                   status, init_pc, init_prev, log_pc, s,
                   run, base, encoded, failed, prev>>

\* line 171 or 176
UpdMergeNames ==
    /\ upd_pc = "merge_names"
    /\ file_names' = MergedNames(upd.first_run)
    /\ upd_pc' = "merge_embeddings"
    /\ UNCHANGED <<call, fs, cache, log, file_paths, embeddings, model, is_ready,
                   status, init_pc, init_prev, upd, log_pc, s, history>>

\* line 172 or 177
UpdMergeEmbeddings ==
    /\ upd_pc = "merge_embeddings"
    /\ embeddings' = MergedEmbeddings(upd.first_run)
    /\ upd_pc' = "ready"
    /\ UNCHANGED <<call, fs, cache, log, file_paths, file_names, model, is_ready,
                   status, init_pc, init_prev, upd, log_pc, s, history>>

\* line 179
UpdReady ==
    /\ upd_pc = "ready"
    /\ is_ready' = TRUE
    /\ upd_pc' = "status_ready"
    /\ UNCHANGED <<call, fs, cache, log, file_paths, file_names, embeddings, model,
                   status, init_pc, init_prev, upd, log_pc, s, history>>

\* line 180
UpdStatusReady ==
    /\ upd_pc = "status_ready"
    /\ status' = St("Ready")
    /\ upd_pc' = "save_begin"
    /\ UNCHANGED <<call, fs, cache, log, file_paths, file_names, embeddings, model,
                   is_ready, init_pc, init_prev, upd, log_pc, s, history>>

\* line 182, _save_cache lines 208-209
UpdSaveBegin ==
    /\ upd_pc = "save_begin"
    /\ upd' = [upd EXCEPT !.prev_status = status]
    /\ SaveBegin
    /\ upd_pc' = "save_write"
    /\ UNCHANGED <<call, fs, cache, log, file_paths, file_names, embeddings, model,
                   is_ready, init_pc, init_prev, log_pc, s, history>>

UpdSaveWrite ==
    /\ upd_pc = "save_write"
    /\ cache' = SaveWritten
    /\ upd_pc' = "save_finally"
    /\ UNCHANGED <<call, fs, log, engine, init_pc, init_prev, upd, log_pc, s, history>>

UpdSaveWriteError ==
    /\ upd_pc = "save_write"
    /\ cache' \in SaveFailed
    /\ failed' = TRUE
    /\ upd_pc' = "save_finally"
    /\ UNCHANGED <<call, fs, log, engine, init_pc, init_prev, upd, log_pc, s,
                   run, base, encoded, merged, prev>>

UpdSaveFinally ==
    /\ upd_pc = "save_finally"
    /\ SaveFinally(upd.prev_status)
    /\ upd_pc' = "log"
    /\ UNCHANGED <<call, fs, cache, log, file_paths, file_names, embeddings, model,
                   is_ready, init_pc, init_prev, upd, log_pc, s, history>>

\* line 185, _log_paths_async lines 46-48
UpdLog ==
    /\ upd_pc = "log"
    /\ log_pc' = "write"
    /\ upd_pc' = "done"
    /\ UNCHANGED <<call, fs, cache, log, engine, init_pc, init_prev, upd, s, history>>

\* write_log, lines 36-42
LogWrite ==
    /\ log_pc = "write"
    /\ log' = Append(log, upd.new_paths)
    /\ log_pc' = "done"
    /\ UNCHANGED <<call, fs, cache, engine, init_pc, init_prev, upd_pc, upd, s, history>>

\* write_log raising, lines 43-44
LogWriteError ==
    /\ log_pc = "write"
    /\ log_pc' = "done"
    /\ UNCHANGED <<call, fs, cache, log, engine, init_pc, init_prev, upd_pc, upd, s, history>>

(***************************************************************************)
(* search                                                                  *)
(***************************************************************************)
\* where the background update is when a call of search begins: not started,
\* scanning or embedding the delta, or at the merge and after it
Phase(pc) ==
    IF pc = "idle" THEN "before"
    ELSE IF pc \in {"begin", "scan", "diff", "embed_status", "encode"} THEN "delta"
    ELSE "after"

\* line 257
Sentinel ==
    [kind |-> "sentinel",
     items |-> << [name |-> "System Initializing...",
                   path |-> <<"Please wait for model to load.">>] >>]

\* an exception leaving search
Raised == [kind |-> "raised", items |-> <<>>]

Results(items) == [kind |-> "results", items |-> items]

\* line 269: np.linalg.norm(embeddings, axis=1, keepdims=True)
Norms(rows) == [i \in 1..Len(rows) |-> Norm(rows[i])]

\* numpy's broadcasting of an (nrows, d) matrix with an (nnorms, 1) column
Broadcastable(nrows, nnorms) == nrows = nnorms \/ nrows = 1 \/ nnorms = 1

BroadcastLen(nrows, nnorms) ==
    IF nrows = nnorms THEN nrows ELSE IF nnorms = 1 THEN nrows ELSE nnorms

\* the cosine of query vector q and a row divided by nrm, in thousandths
\* (no text of Encode has the zero vector, which the 1e-9 terms guard)
Cosine(q, row, nrm) ==
    IF Norm(q) * nrm = 0 THEN 0
    ELSE (Dot(q, row) * 1000) \div (Norm(q) * nrm)

\* lines 268-274, for the rows read at line 272 and the norms of line 269
Similarities(q, rows, norm_db) ==
    [i \in 1..BroadcastLen(Len(rows), Len(norm_db)) |->
        Cosine(q, IF Len(rows) = 1 THEN rows[1] ELSE rows[i],
                  IF Len(norm_db) = 1 THEN norm_db[1] ELSE norm_db[i])]

\* np.argsort: the positions in ascending order of value, equal values in
\* ascending order of position
Argsort(v) ==
    LET n == Len(v)
        Rank(i) == Cardinality({j \in 1..n : v[j] < v[i] \/ (v[j] = v[i] /\ j < i)})
    IN  [r \in 1..n |-> CHOOSE i \in 1..n : Rank(i) = r - 1]

Reverse(sq) == [i \in 1..Len(sq) |-> sq[Len(sq) + 1 - i]]

Take(sq, k) == SubSeq(sq, 1, IF k < Len(sq) THEN k ELSE Len(sq))

\* line 277
TopIndices(similarities, top_k) == Take(Reverse(Argsort(similarities)), top_k)

\* a search that does not look at is_ready
SearchCallUnguarded ==
    /\ s.pc = "idle"
    /\ \E q \in Queries :
         s' = [Idle EXCEPT !.pc = "norm", !.query = q, !.top_k = SEARCH_TOP_K,
                           !.during = Phase(upd_pc)]
    /\ UNCHANGED <<call, fs, cache, log, engine, init_pc, init_prev, upd_pc, upd,
                   log_pc, history>>

\* lines 254-260; main.py, the only caller, leaves top_k at its default
SearchCall ==
    /\ s.pc = "idle"
    /\ \E q \in Queries :
         s' = IF ~is_ready
              THEN [Idle EXCEPT !.pc = "done", !.query = q,
                                !.top_k = SEARCH_TOP_K, !.ret = Sentinel,
                                !.during = Phase(upd_pc)]
              ELSE [Idle EXCEPT !.pc = "norm", !.query = q,
                                !.top_k = SEARCH_TOP_K,
                                !.during = Phase(upd_pc)]
    /\ UNCHANGED <<call, fs, cache, log, engine, init_pc, init_prev, upd_pc, upd,
                   log_pc, history>>

Return(ret) == [Idle EXCEPT !.pc = "done", !.query = s.query, !.top_k = s.top_k,
                            !.during = s.during, !.ret = ret]

\* lines 268-269
SearchNorm ==
    /\ s.pc = "norm"
    /\ s' = IF embeddings.isNone THEN Return(Raised)
            ELSE [s EXCEPT !.pc = "similarities", !.norm_db = Norms(embeddings.rows)]
    /\ UNCHANGED <<call, fs, cache, log, engine, init_pc, init_prev, upd_pc, upd,
                   log_pc, history>>

\* lines 271-277
SearchSimilarities ==
    /\ s.pc = "similarities"
    /\ s' = IF embeddings.isNone
               \/ ~Broadcastable(Len(embeddings.rows), Len(s.norm_db))
            THEN Return(Raised)
            ELSE LET similarities ==
                         Similarities(Encode[s.query], embeddings.rows, s.norm_db)
                     top_indices == TopIndices(similarities, s.top_k)
                 IN  IF top_indices = <<>> THEN Return(Results(<<>>))
                     ELSE [s EXCEPT !.pc = "read_name",
                                    !.similarities = similarities,
                                    !.top_indices = top_indices, !.i = 1]
    /\ UNCHANGED <<call, fs, cache, log, engine, init_pc, init_prev, upd_pc, upd,
                   log_pc, history>>

\* line 282
SearchReadName ==
    /\ s.pc = "read_name"
    /\ LET idx == s.top_indices[s.i] IN
       s' = IF idx > Len(file_names) THEN Return(Raised)
            ELSE [s EXCEPT !.pc = "read_path", !.name = file_names[idx]]
    /\ UNCHANGED <<call, fs, cache, log, engine, init_pc, init_prev, upd_pc, upd,
                   log_pc, history>>

\* lines 283-287
SearchReadPath ==
    /\ s.pc = "read_path"
    /\ LET idx == s.top_indices[s.i]
           results == Append(s.results,
                             [name |-> s.name, path |-> file_paths[idx],
                              score |-> s.similarities[idx]])
       IN  s' = IF idx > Len(file_paths) THEN Return(Raised)
                ELSE IF s.i = Len(s.top_indices) THEN Return(Results(results))
                ELSE [s EXCEPT !.pc = "read_name", !.results = results,
                               !.i = s.i + 1]
    /\ UNCHANGED <<call, fs, cache, log, engine, init_pc, init_prev, upd_pc, upd,
                   log_pc, history>>

\* the caller has the return value; the next call may follow
SearchReturn ==
    /\ s.pc = "done"
    /\ s' = Idle
    /\ UNCHANGED <<call, fs, cache, log, engine, init_pc, init_prev, upd_pc, upd,
                   log_pc, history>>

\* what search returns on a snapshot nothing changes meanwhile
SearchOn(snapshot, query, top_k) ==
    IF snapshot.embeddings.isNone THEN Raised
    ELSE LET rows == snapshot.embeddings.rows
             similarities == Similarities(Encode[query], rows, Norms(rows))
             top_indices == TopIndices(similarities, top_k)
         IN  IF \E i \in 1..Len(top_indices) :
                    \/ top_indices[i] > Len(snapshot.names)
                    \/ top_indices[i] > Len(snapshot.paths)
             THEN Raised
             ELSE Results([i \in 1..Len(top_indices) |->
                            [name |-> snapshot.names[top_indices[i]],
                             path |-> snapshot.paths[top_indices[i]],
                             score |-> similarities[top_indices[i]]]])

(***************************************************************************)
(* The process ends once its threads have, and is started again on the     *)
(* same files: the cache file and the log stay, the engine is constructed  *)
(* anew.                                                                   *)
(***************************************************************************)
RunEnded ==
    /\ init_pc \in {"done", "failed"}
    /\ upd_pc \in {"idle", "done", "scan_error", "died"}
    /\ log_pc \in {"idle", "done"}

Restart ==
    /\ RunEnded
    /\ run < MaxRuns
    /\ run' = run + 1
    /\ prev' = [valid |-> TRUE, snapshot |-> Snapshot, cache |-> cache]
    /\ file_paths' = <<>>
    /\ file_names' = <<>>
    /\ embeddings' = NoneEmb
    /\ model' = FALSE
    /\ is_ready' = FALSE
    /\ status' = St("Initializing...")
    /\ init_pc' = "begin"
    /\ init_prev' = St("")
    /\ upd_pc' = "idle"
    /\ upd' = NoLocals
    /\ log_pc' = "idle"
    /\ base' = [paths |-> <<>>, names |-> <<>>, embeddings |-> NoneEmb]
    /\ encoded' = <<>>
    /\ merged' = FALSE
    /\ UNCHANGED <<call, fs, cache, log, s, failed>>

InitThread ==
    \/ InitBegin \/ InitLoadModel \/ InitLoadModelError \/ InitLoadCache
    \/ InitFilter \/ InitSaveBegin \/ InitSaveWrite \/ InitSaveWriteError
    \/ InitSaveFinally \/ InitReady \/ InitStatusReady \/ InitStartUpdate

UpdateThread ==
    \/ UpdBegin \/ UpdScan \/ UpdScanError \/ UpdDiff
    \/ UpdNoNewAdopt \/ UpdNoNewReady \/ UpdNoNewStatus
    \/ UpdEmbedStatus \/ UpdEncode \/ UpdEncodeError
    \/ UpdMergePaths \/ UpdMergeNames \/ UpdMergeEmbeddings
    \/ UpdReady \/ UpdStatusReady
    \/ UpdSaveBegin \/ UpdSaveWrite \/ UpdSaveWriteError \/ UpdSaveFinally
    \/ UpdLog

LogThread == LogWrite \/ LogWriteError

SearchThread ==
    \/ SearchCall \/ SearchNorm \/ SearchSimilarities
    \/ SearchReadName \/ SearchReadPath \/ SearchReturn

\* one run of the process, with the caller's searches
Next == InitThread \/ UpdateThread \/ LogThread \/ SearchThread

Spec == Init /\ [][Next]_vars

\* runs of the process one after the other on the same files
NextRuns == InitThread \/ UpdateThread \/ LogThread \/ Restart

RunsSpec == Init /\ [][NextRuns]_vars

\* one run of the process, every started thread scheduled again and again
\* (no thread waits for another, and the interpreter switches threads)
NextLive == InitThread \/ UpdateThread \/ LogThread

LiveSpec ==
    /\ Init
    /\ [][NextLive]_vars
    /\ WF_vars(InitThread)
    /\ WF_vars(UpdateThread)
    /\ WF_vars(LogThread)

\* one run of the process on a data directory whose cache file may have been
\* written by anything
ForeignInit ==
    /\ call = NoCall
    /\ fs \in FileSystems
    /\ cache \in InitialCaches \cup ForeignCaches
    /\ log = <<>>
    /\ Constructed
    /\ run = 1
    /\ base = [paths |-> <<>>, names |-> <<>>, embeddings |-> NoneEmb]
    /\ encoded = <<>>
    /\ merged = FALSE
    /\ failed = FALSE
    /\ prev = NoPrev

ForeignSpec == ForeignInit /\ [][NextLive]_vars

(***************************************************************************)
(* Calls of the classifier and of search on their own: is_relevant on a    *)
(* path for a classifier made with a threshold, and search on an engine    *)
(* that is ready with a snapshot and that nothing changes meanwhile.       *)
(***************************************************************************)
\* longest index a call of search is made on
MaxIndexLen == 3

\* directories between SEARCH_ROOT and the last component of a path
Middles ==
    { <<>>, <<"Documents">>, <<".ssh">>, <<"build">>, <<"AppData">>,
      <<"AppData", "Documents">>,
      <<"Documents", "Documents", "Documents", "Documents", "Documents">> }

Leaves ==
    { "notes.txt", "1234.txt", "readme.md", "1234", ".profile", "a",
      "lib.dll", "Documents", "AppData" }

\* the paths is_relevant is called with
ProbePaths == { SEARCH_ROOT \o mid \o <<leaf>> : mid \in Middles, leaf \in Leaves }

\* the thresholds a HeuristicClassifier is made with, in hundredths
Thresholds == {0, 30, RELEVANCE_THRESHOLD, 70, 100}

\* the snapshots an engine is ready with: an index of paths the classifier
\* accepts, embedded; or, after a first run that found nothing (lines
\* 147-150), empty lists and no embeddings
ReadySnapshots ==
    { [paths |-> ps, names |-> NamesOf(ps),
       embeddings |-> Matrix(encode(NamesOf(ps)))] :
        ps \in DistinctSeqs({p \in Universe : is_relevant(p)}, MaxIndexLen) }
    \cup {[paths |-> <<>>, names |-> <<>>, embeddings |-> NoneEmb]}

TopKs == {1, 2, SEARCH_TOP_K}

\* everything but call
process ==
    <<fs, cache, log, engine, init_pc, init_prev, upd_pc, upd, log_pc, s, history>>

\* HeuristicClassifier(threshold).is_relevant(path)
Classify ==
    /\ call.pc = "idle"
    /\ \E path \in ProbePaths, threshold \in Thresholds :
         call' = [NoCall EXCEPT !.pc = "classified",
                                !.path = path,
                                !.threshold = threshold,
                                !.excluded = matches_excluded_pattern(path),
                                !.score = _calculate_score(path),
                                !.relevant = IsRelevantAt(path, threshold)]
    /\ UNCHANGED process

\* search(query, top_k) on a ready engine
Rank ==
    /\ call.pc = "idle"
    /\ \E snapshot \in ReadySnapshots, query \in Queries, top_k \in TopKs :
         call' = [NoCall EXCEPT !.pc = "searched",
                                !.snapshot = snapshot,
                                !.query = query,
                                !.top_k = top_k,
                                !.ret = SearchOn(snapshot, query, top_k)]
    /\ UNCHANGED process

\* the scan of _update_index_background (lines 88-128) over a tree
Crawl ==
    /\ call.pc = "idle"
    /\ \E tree \in CrawlTrees :
         call' = [NoCall EXCEPT !.pc = "scanned",
                                !.tree = tree,
                                !.visited = Visited(SEARCH_ROOT, tree),
                                !.current_paths = Scan(tree),
                                !.current_names = NamesOf(Scan(tree))]
    /\ UNCHANGED process

\* the caller has the return value
CallReturn ==
    /\ call.pc # "idle"
    /\ call' = NoCall
    /\ UNCHANGED process

CallInit ==
    /\ call = NoCall
    /\ fs = {}
    /\ cache = AbsentCache
    /\ log = <<>>
    /\ Constructed
    /\ run = 1
    /\ base = [paths |-> <<>>, names |-> <<>>, embeddings |-> NoneEmb]
    /\ encoded = <<>>
    /\ merged = FALSE
    /\ failed = FALSE
    /\ prev = NoPrev

CallNext == Classify \/ Rank \/ Crawl \/ CallReturn

CallSpec == CallInit /\ [][CallNext]_vars

(***************************************************************************)
(* Properties.                                                             *)
(***************************************************************************)
SeqToSet(sq) == {sq[i] : i \in 1..Len(sq)}

IsPrefix(a, b) == Len(a) <= Len(b) /\ SubSeq(b, 1, Len(a)) = a

\* the snapshot the background run starts from: the installed one until the
\* update thread has begun, the one it began with afterwards
PreMerge == IF upd_pc \in {"idle", "begin"} THEN Snapshot ELSE base

\* the paths of a scan that are not in the sequence known
Delta(scanned, known) ==
    LET Unknown(p) == p \notin SeqToSet(known)
    IN  SelectSeq(scanned, Unknown)

\* the snapshot of an index that exists, extended by the delta of the scan
PostMerge ==
    LET new_paths == Delta(Scan(fs), PreMerge.paths)
    IN  [paths |-> PreMerge.paths \o new_paths,
         names |-> PreMerge.names \o NamesOf(new_paths),
         embeddings |-> Matrix(PreMerge.embeddings.rows \o encode(NamesOf(new_paths)))]

\* C1: a search on an index that exists, however it interleaves with the
\* merge of the background run, does not fail and returns what search gives
\* on the whole snapshot before the merge or on the whole snapshot after it.
C1_SearchSeesOneSnapshot ==
    (s.pc = "done" /\ s.ret.kind # "sentinel" /\ ~PreMerge.embeddings.isNone)
        => s.ret \in {SearchOn(PreMerge, s.query, s.top_k),
                      SearchOn(PostMerge, s.query, s.top_k)}

\* the three parallel sequences have one length
Aligned ==
    /\ Len(file_paths) = Len(file_names)
    /\ ~embeddings.isNone
    /\ Len(embeddings.rows) = Len(file_paths)

\* the update thread is past the merge (lines 168-177)
MergeCompleted ==
    \/ upd_pc \in {"ready", "status_ready", "save_begin", "save_write",
                   "save_finally", "log"}
    \/ upd_pc = "done" /\ merged

\* the initialisation thread is past the assignments of _filter_cache and has
\* not started the update thread
FilterCompleted ==
    init_pc \in {"save_begin", "save_write", "save_finally", "ready", "status_ready"}

\* C2: after every completed merge and every completed filter,
\* len(file_paths) = len(file_names) = number of rows of embeddings.
C2_AlignedAfterMergeAndFilter == (MergeCompleted \/ FilterCompleted) => Aligned

\* a merge onto a cache that kept an entry has completed
C2_Witness ==
    /\ upd_pc = "done" /\ merged
    /\ base.paths # <<>>
    /\ Len(file_paths) > Len(base.paths)
    /\ cache.kind = "ok" /\ Len(cache.paths) = Len(file_paths)

\* C3: while is_ready is false, a call of search returns exactly the one
\* sentinel result, does not fail, and leaves the snapshot, the readiness
\* flag and the status as they are.
C3_NotReadySentinel ==
    [][(s.pc = "idle" /\ s' # s /\ ~is_ready)
          => /\ s'.pc = "done"
             /\ s'.ret.kind = "sentinel"
             /\ Len(s'.ret.items) = 1
             /\ s'.ret.items[1].name = "System Initializing..."
             /\ UNCHANGED <<file_paths, file_names, embeddings, is_ready, status>>]_vars

\* a search has returned the sentinel while the first scan's delta is embedded
C3_Witness ==
    /\ s.pc = "done" /\ s.ret = Sentinel
    /\ upd_pc = "encode" /\ ~is_ready

\* C4: with a cache loaded, the engine is ready with status Ready before the
\* background scan starts, and every search that begins while the scan or
\* the embedding of the delta is in progress returns ranked results of an
\* installed snapshot, never the sentinel.
C4_UsableFromCache ==
    /\ (init_pc = "start_update" /\ ~embeddings.isNone)
          => (is_ready /\ status = St("Ready"))
    /\ (s.pc = "done" /\ s.during = "delta" /\ ~PreMerge.embeddings.isNone)
          => s.ret \in {SearchOn(PreMerge, s.query, s.top_k),
                        SearchOn(PostMerge, s.query, s.top_k)}

\* C5: the background run passes to model.encode exactly the names of the
\* scanned paths that are not among the paths C it started from, and leaves
\* C followed by those paths: |C| + |S minus C| entries.
C5_DeltaDetection ==
    upd_pc = "done" =>
        LET new_paths == Delta(Scan(fs), base.paths) IN
        /\ encoded = IF new_paths = <<>> THEN <<>> ELSE <<NamesOf(new_paths)>>
        /\ file_paths = base.paths \o new_paths
        /\ Len(file_paths) = Len(base.paths) + Len(new_paths)

\* cached paths {A, B}, a scan that has a third: one name embedded, 3 entries
C5_Witness ==
    /\ upd_pc = "done"
    /\ Len(base.paths) = 2
    /\ SeqToSet(base.paths) \subseteq SeqToSet(Scan(fs))
    /\ Len(encoded) = 1 /\ Len(encoded[1]) = 1
    /\ Len(file_paths) = 3

\* C6: the background run appends only: every entry of the snapshot it
\* started from stays at its position with its name and its embedding row,
\* whether or not the scan still has its path, and is not embedded again.
C6_AppendOnly ==
    upd_pc \notin {"idle", "begin"} =>
        /\ IsPrefix(base.paths, file_paths)
        /\ IsPrefix(base.names, file_names)
        /\ ~base.embeddings.isNone =>
              (~embeddings.isNone /\ IsPrefix(base.embeddings.rows, embeddings.rows))
        /\ SeqToSet(upd.new_paths) \cap SeqToSet(base.paths) = {}
        /\ Len(encoded) <= 1
        /\ encoded # <<>> => encoded[1] = upd.new_names

\* a merge has completed onto a snapshot with a path that is not on disk
C6_Witness ==
    /\ upd_pc = "done" /\ merged
    /\ \E i \in 1..Len(base.paths) : base.paths[i] \notin fs
    /\ Len(file_paths) > Len(base.paths)

\* C7: a second run of the whole cycle on the same files and configuration
\* embeds nothing, merges nothing, and leaves the snapshot and the cache
\* file as the first run left them (no step of either run having raised).
C7_Idempotent ==
    (run > 1 /\ upd_pc = "done" /\ ~failed) =>
        /\ encoded = <<>>
        /\ ~merged
        /\ Snapshot = prev.snapshot
        /\ cache = prev.cache

\* the second run has ended after a first run that embedded and saved
C7_Witness ==
    /\ run = 2 /\ upd_pc = "done" /\ ~failed
    /\ log # <<>>
    /\ Len(file_paths) >= 2
    /\ cache.kind = "ok"

\* C8: with no cache and no new path in the scan, the engine adopts the scan
\* result, is ready with nothing embedded, and every search that finds it
\* ready returns a list of results instead of failing.
C8_EmptyIndexSearchable ==
    (base.embeddings.isNone /\ upd_pc = "done" /\ ~merged) =>
        /\ is_ready
        /\ file_paths = Scan(fs)
        /\ encoded = <<>>
        /\ (s.pc = "done" /\ s.ret.kind # "sentinel") => s.ret.kind = "results"

\* the status strings that report an error
IsError(st) == st.text \in {"Error: model load failed", "Error: scan failed",
                            "Error: embedding failed"}

\* C9: once model load, the scan or the embedding of the delta has raised
\* and the task has ended, the status is Error(message), not an
\* intermediate value.
C9_ErrorStatus ==
    (init_pc = "failed" \/ upd_pc \in {"scan_error", "died"}) => IsError(status)

\* C10: when model load, scan, embedding and cache save raise nothing and
\* every thread is scheduled fairly, the status eventually is Ready with
\* is_ready true and stays so.
C10_EventuallyReady ==
    <>failed \/ <>[](status = St("Ready") /\ is_ready)

\* a run that raised nothing has saved its merge and is Ready
C10_Witness ==
    /\ ~failed /\ merged
    /\ upd_pc = "done" /\ log_pc = "done"
    /\ status = St("Ready") /\ is_ready
    /\ cache = Pickled(file_names, file_paths, embeddings)

\* the initialisation thread is past lines 54-55 without a model
ModelLoadFailed == init_pc \notin {"begin", "load_model"} /\ ~model

\* C11: once loading the embedding runtime has failed, the status is the
\* error message and nothing happens any more: no cache load, scan,
\* embedding, save or log, is_ready stays false, the status does not change,
\* and every search returns the not-ready sentinel.
C11_ModelLoadErrorTerminal ==
    /\ [](ModelLoadFailed =>
            /\ status = St("Error: model load failed")
            /\ ~is_ready
            /\ Snapshot = [paths |-> <<>>, names |-> <<>>, embeddings |-> NoneEmb]
            /\ upd_pc = "idle" /\ log_pc = "idle"
            /\ encoded = <<>> /\ ~merged /\ log = <<>>
            /\ s.pc \in {"idle", "done"}
            /\ s.pc = "done" => s.ret = Sentinel)
    /\ [][ModelLoadFailed =>
            /\ ModelLoadFailed'
            /\ UNCHANGED <<cache, log, engine, init_pc, upd_pc, log_pc>>]_vars

\* the model load has failed with a cache file present, and a search has
\* returned since
C11_Witness ==
    /\ init_pc = "failed"
    /\ cache.kind = "ok" /\ cache.paths # <<>>
    /\ s.pc = "done" /\ s.ret = Sentinel /\ s.during = "before"

\* C12: when the cache file exists and _load_cache fails on it (pickle.load
\* raises, or the stored dict lacks 'names', 'paths' or 'embeddings'), the
\* load leaves the snapshot empty and the engine not ready, as with no cache
\* file, and the background run that follows ends with the index equal to
\* the full scan result.
C12_LoadFailureIsCacheMiss ==
    /\ (init_pc = "start_update" /\ ~is_ready) =>
            Snapshot = [paths |-> <<>>, names |-> <<>>, embeddings |-> NoneEmb]
    /\ (upd_pc = "done" /\ base.embeddings.isNone /\ ~failed) =>
            /\ file_paths = Scan(fs)
            /\ file_names = NamesOf(Scan(fs))
            /\ Scan(fs) # <<>> => embeddings = Matrix(encode(NamesOf(Scan(fs))))

\* C13: a save is atomic for the cache file: whatever happens inside
\* _save_cache, the file afterwards holds the complete snapshot it held
\* before or the complete snapshot being saved.
C13_SaveAtomic ==
    [][cache' \in {cache, Pickled(file_names, file_paths, embeddings)}]_vars

\* C14: _save_cache fails soft: whether or not the write raises, the caller
\* goes on after it, paths, names, embeddings and is_ready are as before the
\* save, and the status finally is Ready if the engine is ready and
\* otherwise the status from before the save.
C14_SaveFailsSoft ==
    [][/\ (init_pc = "save_begin" /\ init_pc' # init_pc) => init_prev' = status
       /\ (upd_pc = "save_begin" /\ upd_pc' # upd_pc) => upd'.prev_status = status
       /\ (init_pc = "save_write" /\ init_pc' # init_pc) =>
             /\ init_pc' = "save_finally"
             /\ UNCHANGED <<file_paths, file_names, embeddings, is_ready, init_prev>>
       /\ (upd_pc = "save_write" /\ upd_pc' # upd_pc) =>
             /\ upd_pc' = "save_finally"
             /\ UNCHANGED <<file_paths, file_names, embeddings, is_ready, upd>>
       /\ (init_pc = "save_finally" /\ init_pc' # init_pc) =>
             /\ init_pc' = "ready"
             /\ status' = IF is_ready THEN St("Ready") ELSE init_prev
             /\ UNCHANGED <<file_paths, file_names, embeddings, is_ready>>
       /\ (upd_pc = "save_finally" /\ upd_pc' # upd_pc) =>
             /\ upd_pc' = "log"
             /\ status' = IF is_ready THEN St("Ready") ELSE upd.prev_status
             /\ UNCHANGED <<file_paths, file_names, embeddings, is_ready>>]_vars

\* the save of the filtered cache has failed before the engine was ready and
\* _filter_cache has returned with the earlier status back
C14_Witness ==
    /\ init_pc = "ready" /\ failed /\ ~is_ready
    /\ cache.kind = "garbage"
    /\ status = St("Loading from Cache...")
    /\ file_paths # <<>>

\* C15 as stated: after a merge whose save succeeded, and whenever the
\* background run has finished without an I/O failure and a cache file
\* exists, the cache file holds the in-memory names, paths and embeddings.
C15_PersistedEqualsMemory ==
    (upd_pc \in {"save_finally", "log", "done"} /\ ~failed /\ cache.kind # "absent")
        => cache = Pickled(file_names, file_paths, embeddings)

\* C15, amended: the same where the run merged or the cache file is readable;
\* otherwise the run found nothing to index, saved nothing, and an
\* unreadable cache file is left as it was.
C15_PersistedEqualsMemoryIfSavedOrLoaded ==
    (upd_pc \in {"save_finally", "log", "done"} /\ ~failed) =>
        IF merged \/ cache.kind = "ok"
        THEN cache = Pickled(file_names, file_paths, embeddings)
        ELSE /\ cache.kind \in {"absent", "garbage"}
             /\ Scan(fs) = <<>>
             /\ file_paths = <<>> /\ embeddings.isNone

\* a run has merged new files onto a loaded cache and saved
C15_Witness ==
    /\ upd_pc = "done" /\ ~failed /\ merged
    /\ base.paths # <<>> /\ Len(file_paths) > Len(base.paths)
    /\ cache = Pickled(file_names, file_paths, embeddings)

\* C16: _filter_cache leaves exactly the loaded entries whose path the
\* classifier accepts, in their order, each with its own name and embedding
\* row; it saves the cache if and only if it removed an entry, and the cache
\* it writes holds no removed entry.
C16_FilterCache ==
    /\ [][(init_pc = "filter" /\ init_pc' # init_pc) =>
            LET keep == {i \in 1..Len(file_paths) : is_relevant(file_paths[i])}
                n == Cardinality(keep)
            IN  /\ Len(file_paths') = n
                /\ Len(file_names') = n
                /\ Len(embeddings'.rows) = n
                /\ \E f \in [1..n -> keep] :
                      /\ \A j, k \in 1..n : j < k => f[j] < f[k]
                      /\ \A k \in 1..n :
                            /\ file_paths'[k] = file_paths[f[k]]
                            /\ file_names'[k] = file_names[f[k]]
                            /\ embeddings'.rows[k] = embeddings.rows[f[k]]
                /\ init_pc' = IF n < Len(file_paths) THEN "save_begin" ELSE "ready"]_vars
    /\ [][(init_pc = "save_write" /\ cache' # cache /\ cache'.kind = "ok") =>
            /\ cache' = Pickled(file_names, file_paths, embeddings)
            /\ \A i \in 1..Len(cache'.paths) : is_relevant(cache'.paths[i])
            /\ Len(cache'.paths) < Len(cache.paths)]_vars

\* a cache of two entries has lost one to the filter and has been rewritten
C16_Witness ==
    /\ init_pc = "save_finally" /\ ~failed
    /\ Len(file_paths) = 1
    /\ cache = Pickled(file_names, file_paths, embeddings)

\* the path lies under a configured absolute-exclusion root, or is one
UnderExcludedRoot(path) ==
    \E excluded \in EXCLUDED_PATHS :
        Len(path) >= Len(excluded) /\ SubSeq(path, 1, Len(excluded)) = excluded

\* C17: for every path under an absolute-exclusion root, is_relevant is
\* false, whatever extension, name and folders the path has and whatever
\* the threshold is.
C17_HardExclusionWins ==
    (call.pc = "classified" /\ UnderExcludedRoot(call.path)) => ~call.relevant

\* a path under AppData with every positive signal, score 0.95, is not
\* relevant at threshold 0
C17_Witness ==
    /\ call.pc = "classified"
    /\ call.path = SEARCH_ROOT \o <<"AppData", "Documents", "notes.txt">>
    /\ call.threshold = 0
    /\ call.score = <<95, 0>>
    /\ ~call.relevant

\* C18: for every path with a component that begins with '.', the last one
\* or any other, is_relevant is false by hard exclusion.
C18_DotComponentExcluded ==
    (call.pc = "classified" /\ \E i \in 1..Len(call.path) : Comp[call.path[i]].dot)
        => (call.excluded /\ ~call.relevant)

\* the score as the specification states it, in hundredths and exact
ClaimScore(path) ==
    LET name == Comp[Last(path)]
        total ==
            50
            + (IF name.ext \in POSITIVE_EXTENSIONS THEN 20 ELSE 0)
            + (IF name.stem \in POSITIVE_NAMES THEN 15 ELSE 0)
            + (IF \E i \in 1..Len(path) : Comp[path[i]].lower \in POSITIVE_FOLDERS
               THEN 10 ELSE 0)
            - (IF name.dot THEN 30 ELSE 0)
            - (IF Len(path) > 8 THEN 10 ELSE 0)
            - (IF name.neg THEN 30 ELSE 0)
            - (IF name.len < 2 \/ name.len > 100 THEN 10 ELSE 0)
    IN  IF total < 0 THEN 0 ELSE IF total > 100 THEN 100 ELSE total

\* C19: for every path no hard exclusion matches, is_relevant is true if and
\* only if the score, computed exactly from 0.5 and the listed adjustments
\* and clamped to [0,1], is at least the threshold.
C19_RelevantIffScoreAtLeastThreshold ==
    (call.pc = "classified" /\ ~call.excluded)
        => (call.relevant <=> ClaimScore(call.path) >= call.threshold)

\* the cosine score of index position i for the query, in thousandths
ScoreAt(snapshot, query, i) ==
    Cosine(Encode[query], snapshot.embeddings.rows[i],
           Norm(snapshot.embeddings.rows[i]))

\* C20: on a ready engine with n entries, search(query, top_k) returns
\* min(top_k, n) results in non-increasing order of cosine score, each with
\* the name, path and score of one index position, and no position left out
\* scores strictly higher than one returned.
C20_TopKRanked ==
    call.pc = "searched" =>
        LET n == Len(call.snapshot.paths)
            items == call.ret.items
            m == Len(items)
        IN  /\ call.ret.kind = "results"
            /\ m = IF call.top_k < n THEN call.top_k ELSE n
            /\ \A k \in 1..(m - 1) : items[k].score >= items[k + 1].score
            /\ \E f \in [1..m -> 1..n] :
                  /\ \A j, k \in 1..m : j # k => f[j] # f[k]
                  /\ \A k \in 1..m :
                        items[k] = [name |-> call.snapshot.names[f[k]],
                                    path |-> call.snapshot.paths[f[k]],
                                    score |-> ScoreAt(call.snapshot, call.query, f[k])]
                  /\ \A i \in 1..n : (\A k \in 1..m : f[k] # i) =>
                        \A k \in 1..m :
                            ScoreAt(call.snapshot, call.query, i) <= items[k].score


\* the position in the index of the entry a result item was made from
\* (the paths of a ready snapshot are distinct)
PositionOf(snapshot, item) ==
    CHOOSE i \in 1..Len(snapshot.paths) : snapshot.paths[i] = item.path

\* C21: when two index entries have the same similarity score for the query,
\* search returns them in index order: the entry at the lower index position
\* comes first.
C21_TiesByIndexOrder ==
    (call.pc = "searched" /\ call.ret.kind = "results") =>
        \A k, l \in 1..Len(call.ret.items) :
            (k < l /\ call.ret.items[k].score = call.ret.items[l].score)
                => PositionOf(call.snapshot, call.ret.items[k])
                     < PositionOf(call.snapshot, call.ret.items[l])


\* what lines 101-113 ask of a directory, and lines 101-125 of any entry, for
\* it to be appended: not hidden, not an absolute-exclusion root nor under
\* one, and relevant to the classifier
Emittable(p) ==
    /\ ~Comp[Last(p)].dot
    /\ ~UnderExcludedRoot(p)
    /\ is_relevant(p)

\* the directories strictly between the root and p
Ancestors(p) == {SubSeq(p, 1, k) : k \in (Len(SEARCH_ROOT) + 1)..(Len(p) - 1)}

\* C22: crawler pruning.  The scan of a tree emits an entry of the tree only
\* if every directory strictly between the root and it was emitted itself
\* (not hidden, not an absolute-exclusion root nor under one, relevant);
\* nothing inside a directory that was not emitted is emitted; every
\* directory the walk goes down is an entry of its own, with its name; and
\* no path is emitted twice.
C22_CrawlerPruning ==
    call.pc = "scanned" =>
        LET out == call.current_paths
            emitted == SeqToSet(out)
        IN  /\ emitted \subseteq call.tree
            /\ \A p \in emitted : \A a \in Ancestors(p) :
                  a \in emitted /\ a \in Dirs /\ Emittable(a)
            /\ \A d \in call.tree : (d \in Dirs /\ d \notin emitted) =>
                  \A p \in call.tree : (IsPrefix(d, p) /\ p # d) => p \notin emitted
            /\ \A i \in 2..Len(call.visited) :
                  \E j \in 1..Len(out) :
                      /\ out[j] = call.visited[i]
                      /\ call.current_names[j] = Last(call.visited[i])
            /\ Len(call.current_names) = Len(out)
            /\ \A i, j \in 1..Len(out) : i # j => out[i] # out[j]

\* a scan that pruned a hidden directory, an absolute-exclusion root and a
\* directory the classifier rejects, each with a file in it, and went down a
\* directory it kept
C22_Witness ==
    /\ call.pc = "scanned"
    /\ {pSshNotes, pAppDataNotes, pReadme, pDocNotes, pDocDigits, pNotes, pProfile}
          \subseteq call.tree
    /\ call.current_paths = <<pDocuments, pNotes, pDocNotes>>
    /\ call.visited = <<SEARCH_ROOT, pDocuments>>


\* C23: in every reachable state the status Ready implies is_ready; once
\* is_ready is true it never becomes false again; and a search called while
\* is_ready is true does not return the not-ready sentinel.  So a caller who
\* has seen the status Ready never gets the sentinel from search.
C23_ReadyStatusImpliesIsReady ==
    /\ [](status = St("Ready") => is_ready)
    /\ [][is_ready => is_ready']_vars
    /\ [][(is_ready /\ s.pc = "idle" /\ s'.pc # "idle")
            => s'.ret.kind # "sentinel"]_vars

\* a search called after the background run had set the status Ready has
\* returned results
C23_Witness ==
    /\ status = St("Ready")
    /\ is_ready
    /\ upd_pc = "done"
    /\ s.pc = "done"
    /\ s.during = Phase("done")
    /\ s.ret.kind = "results"


\* C24: in every state where is_ready is true, every path of the in-memory
\* index is accepted by the classifier: the filter has removed every rejected
\* path of the cache before the engine is marked ready, and the scan and the
\* merge add no rejected path (so none the filter removed comes back).
C24_IndexedPathsAccepted ==
    is_ready => \A i \in 1..Len(file_paths) : is_relevant(file_paths[i])

\* a ready engine after its merge: the cache file it started from still
\* holds a rejected path (the filter dropped it from memory, its save
\* failed), the same path is on disk where the scan passed over it, and the
\* scan's new paths are in the index
C24_Witness ==
    /\ is_ready
    /\ merged
    /\ upd_pc = "ready"
    /\ pDigits \in fs
    /\ pDigits \in SeqToSet(cache.paths)
    /\ Len(file_paths) > Len(base.paths)
    /\ base.paths # <<>>

====
